---- MODULE Spec2Model ----
(***************************************************************************)
(* Cell-Count: the batch worker cfu_count.py (folder discovery, the        *)
(* per-image loop with its failure boundary, the result table and the      *)
(* overlays) and the Streamlit driver app.py (worker orchestration,        *)
(* session state across script reruns, create_zip_of_run).                 *)
(*                                                                         *)
(* File names are sequences of one-character strings, so that suffix,      *)
(* stem, lower-casing and path ordering are computed as pathlib and str    *)
(* compute them.                                                           *)
(***************************************************************************)
EXTENDS Naturals, Integers, Sequences, FiniteSets, TLC

VARIABLES
    \* ---- cfu_count.py: one run of main() ----
    folderOk,     \* folder.is_dir() at line 36
    entries,      \* names of the entries of the input folder
    dirs,         \* the entries that are directories (the others are regular files)
    oracleOk,     \* whether models.CellposeModel(...) at line 81 returns
    outInit,      \* "empty" or "stale": the output directory before the run
    pc,           \* position of main()
    images,       \* the worklist (line 48)
    idx,          \* position of the for loop of line 93 (next image to process)
    csvFile,      \* colony_counts.csv: [exists, header, rows]
    visualsDir,   \* whether cp_visuals exists
    overlays,     \* names of the files in cp_visuals
    exitStatus,   \* -1 while running, then the status of the process
    oracleInits,  \* history: number of times the model was constructed
    attempted,    \* history: images whose loop body was entered, in order
    outcome,      \* history: per attempted image, "ok", "load", "infer" or "render"
    rowOf,        \* history: per data row of the table, the image that produced it
    \* ---- app.py: the session and the script reruns ----
    appPc,        \* "idle", "loop", "decided", "rerun"
    analysis_done, \* st.session_state.analysis_done
    result_dir,   \* st.session_state.result_dir: 0 is None, else the run id
    runs,         \* number of run ids handed out so far
    runExit,      \* history: per run id, "none", "ok" or "failed"
    wState,       \* worker process: "none", "running", "closed", "exited"
    wCode,        \* exit status of the worker, -1 until it exits
    pipe,         \* lines written by the worker and not yet read
    emitted,      \* history: every line the worker wrote, in order
    log_content,  \* the driver's log
    shown,        \* history: the directory the results section displayed last, 0 if none
    fs,           \* file tree under the directory result_dir names: [dirs, files]
    fsBefore,     \* history: fs when create_zip_of_run was last entered
    zipName       \* history: run_name of the last create_zip_of_run call on that tree

workerVars == <<folderOk, entries, dirs, oracleOk, outInit, pc, images, idx, csvFile,
                visualsDir, overlays, exitStatus, oracleInits, attempted, outcome, rowOf>>
appVars == <<appPc, analysis_done, result_dir, runs, runExit, wState, wCode, pipe,
             emitted, log_content, shown, fs, fsBefore, zipName>>
vars == <<workerVars, appVars>>

----------------------------------------------------------------------------
\* Bounds of the model.
MaxEntries == 3     \* entries in the input folder
MaxCount == 1       \* largest label value a mask holds

----------------------------------------------------------------------------
\* Characters: their order (str comparison is by code point) and str.lower().

\* The characters used, in ascending code-point order.
Alphabet == <<".", "F", "I", "T", "_", "a", "b", "e", "f", "g", "h", "i", "j", "l",
              "n", "o", "p", "r", "s", "t", "v", "x", "y">>

Code(c) == CHOOSE i \in 1..Len(Alphabet) : Alphabet[i] = c

LowerChar(c) ==
    CASE c = "F" -> "f"
      [] c = "I" -> "i"
      [] c = "T" -> "t"
      [] OTHER -> c

Lower(s) == [i \in 1..Len(s) |-> LowerChar(s[i])]

\* str.rfind("."): the last index holding a dot, 0 when there is none.
RFindDot(s) ==
    IF \E i \in 1..Len(s) : s[i] = "."
    THEN CHOOSE i \in 1..Len(s) : s[i] = "." /\ \A j \in (i+1)..Len(s) : s[j] # "."
    ELSE 0

\* PurePath.suffix: the text from the last dot on, unless the dot is the first
\* or the last character of the name.
Suffix(name) ==
    LET i == RFindDot(name)
    IN  IF 1 < i /\ i < Len(name) THEN SubSeq(name, i, Len(name)) ELSE <<>>

\* PurePath.stem: the name without its suffix.
Stem(name) ==
    LET i == RFindDot(name)
    IN  IF 1 < i /\ i < Len(name) THEN SubSeq(name, 1, i - 1) ELSE name

StartsWithDot(name) == Len(name) > 0 /\ name[1] = "."

\* str.__lt__ on two names (paths of one folder compare as their names do).
RECURSIVE PathLess(_, _)
PathLess(a, b) ==
    IF b = <<>> THEN FALSE
    ELSE IF a = <<>> THEN TRUE
    ELSE IF Head(a) = Head(b) THEN PathLess(Tail(a), Tail(b))
    ELSE Code(Head(a)) < Code(Head(b))

IMAGE_EXTS == { <<".", "t", "i", "f">>, <<".", "t", "i", "f", "f">>,
                <<".", "p", "n", "g">>, <<".", "j", "p", "g">>,
                <<".", "j", "p", "e", "g">> }

\* The filter of the generator expression of lines 49-50.
IsPlate(name) == Lower(Suffix(name)) \in IMAGE_EXTS /\ ~StartsWithDot(name)

\* sorted(): insertion of each element of the listing into an ascending list.
RECURSIVE Insert(_, _)
Insert(x, s) ==
    IF s = <<>> THEN <<x>>
    ELSE IF PathLess(x, Head(s)) THEN <<x>> \o s
    ELSE <<Head(s)>> \o Insert(x, Tail(s))

RECURSIVE Sorted(_)
Sorted(s) == IF s = <<>> THEN <<>> ELSE Insert(Head(s), Sorted(Tail(s)))

RECURSIVE SelectPlates(_)
SelectPlates(s) ==
    IF s = <<>> THEN <<>>
    ELSE IF IsPlate(Head(s)) THEN <<Head(s)>> \o SelectPlates(Tail(s))
    ELSE SelectPlates(Tail(s))

\* Lines 48-51 without sorted().
WorklistUnsorted(listing) == SelectPlates(listing)

\* Lines 48-51 on the order iterdir() happened to yield.
Worklist(listing) == Sorted(SelectPlates(listing))

\* The orders in which iterdir() can yield a set of entries.
Listings(S) ==
    { s \in [1..Cardinality(S) -> S] : \A x \in S : \E i \in DOMAIN s : s[i] = x }

----------------------------------------------------------------------------
\* The folders the model draws from.
Atif == <<"a", ".", "t", "i", "f">>
BTIFF == <<"b", ".", "T", "I", "F", "F">>
Hidden == <<".", "h", ".", "p", "n", "g">>
Notes == <<"n", ".", "t", "x", "t">>
Apng == <<"a", ".", "p", "n", "g">>
SubPng == <<"s", ".", "p", "n", "g">>
NoDot == <<"t", "i", "f">>

Catalog == {Atif, BTIFF, Hidden, Notes, Apng, SubPng, NoDot}
\* The catalog names that may name a directory instead of a regular file.
DirNames == {SubPng}

Header == <<"File Name", "True Count">>
OverlayTail == <<"_", "o", "v", "e", "r", "l", "a", "y", ".", "p", "n", "g">>
OverlayName(stem) == stem \o OverlayTail

StaleStem == <<"o", "l", "d">>
NoCsv == [exists |-> FALSE, header |-> <<>>, rows |-> <<>>]
InitialCsv(o) ==
    IF o = "stale"
    THEN [exists |-> TRUE, header |-> Header, rows |-> << <<StaleStem, 0>> >>]
    ELSE NoCsv
InitialVisuals(o) == o = "stale"
InitialOverlays(o) == IF o = "stale" THEN {OverlayName(StaleStem)} ELSE {}

----------------------------------------------------------------------------
\* cfu_count.py, main(): one run of the worker.

Outcomes == {"ok", "load", "infer", "render"}

\* Exit status of a process ended by SystemExit(message) or by an uncaught
\* exception, and of one whose main() returns.
Raised == 1
Returned == 0

WorkerInit ==
    /\ folderOk \in BOOLEAN
    /\ entries \in { S \in SUBSET Catalog : Cardinality(S) <= MaxEntries }
    /\ folderOk = FALSE => entries = {}
    /\ dirs \in SUBSET (entries \cap DirNames)
    /\ oracleOk \in BOOLEAN
    /\ outInit \in {"empty", "stale"}
    /\ pc = "start"
    /\ images = <<>>
    /\ idx = 1
    /\ csvFile = InitialCsv(outInit)
    /\ visualsDir = InitialVisuals(outInit)
    /\ overlays = InitialOverlays(outInit)
    /\ exitStatus = -1
    /\ oracleInits = 0
    /\ attempted = <<>>
    /\ outcome = <<>>
    /\ rowOf = <<>>

\* Lines 35-44 with a plain return in place of raise SystemExit.
CheckFolderReturns ==
    /\ pc = "start"
    /\ IF ~folderOk
       THEN pc' = "done" /\ exitStatus' = Returned
       ELSE pc' = "discover" /\ exitStatus' = exitStatus
    /\ UNCHANGED <<folderOk, entries, dirs, oracleOk, outInit, images, idx, csvFile,
                   visualsDir, overlays, oracleInits, attempted, outcome, rowOf>>
    /\ UNCHANGED appVars

\* Lines 35-44: the folder check; the output directory is created.
CheckFolder ==
    /\ pc = "start"
    /\ IF ~folderOk
       THEN pc' = "done" /\ exitStatus' = Raised
       ELSE pc' = "discover" /\ exitStatus' = exitStatus
    /\ UNCHANGED <<folderOk, entries, dirs, oracleOk, outInit, images, idx, csvFile,
                   visualsDir, overlays, oracleInits, attempted, outcome, rowOf>>
    /\ UNCHANGED appVars

\* Line 57 without the early return.
NoEmptyReturn(imgs) == FALSE

\* Line 57: the early return on an empty worklist.
EmptyReturn(imgs) == imgs = <<>>

\* Lines 46-63: the worklist, the early return, the overlay directory.
Discover ==
    /\ pc = "discover"
    /\ \E listing \in Listings(entries) :
          /\ images' = Worklist(listing)
          /\ IF EmptyReturn(images')
             THEN pc' = "done" /\ exitStatus' = Returned /\ visualsDir' = visualsDir
             ELSE pc' = "model" /\ exitStatus' = exitStatus /\ visualsDir' = TRUE
    /\ UNCHANGED <<folderOk, entries, dirs, oracleOk, outInit, idx, csvFile,
                   overlays, oracleInits, attempted, outcome, rowOf>>
    /\ UNCHANGED appVars

\* Lines 65-81 with the failure of the constructor swallowed.
LoadModelSwallowed ==
    /\ pc = "model"
    /\ oracleInits' = oracleInits + 1
    /\ pc' = "open"
    /\ UNCHANGED <<folderOk, entries, dirs, oracleOk, outInit, images, idx, csvFile,
                   visualsDir, overlays, exitStatus, attempted, outcome, rowOf>>
    /\ UNCHANGED appVars

\* Lines 65-81: the model is constructed; a failure propagates out of main().
LoadModel ==
    /\ pc = "model"
    /\ oracleInits' = oracleInits + 1
    /\ IF oracleOk
       THEN pc' = "open" /\ exitStatus' = exitStatus
       ELSE pc' = "done" /\ exitStatus' = Raised
    /\ UNCHANGED <<folderOk, entries, dirs, oracleOk, outInit, images, idx, csvFile,
                   visualsDir, overlays, attempted, outcome, rowOf>>
    /\ UNCHANGED appVars

\* Lines 83-91: the table is opened for writing (truncated) and gets its header.
OpenCsv ==
    /\ pc = "open"
    /\ csvFile' = [exists |-> TRUE, header |-> Header, rows |-> <<>>]
    /\ pc' = "loop"
    /\ idx' = 1
    /\ UNCHANGED <<folderOk, entries, dirs, oracleOk, outInit, images, visualsDir,
                   overlays, exitStatus, oracleInits, attempted, outcome, rowOf>>
    /\ UNCHANGED appVars

\* Lines 142-145 without the except clause: the exception leaves main().
AfterErrorAbort(i) == [pc |-> "done", idx |-> i, status |-> Raised]

\* Lines 142-145: what follows an exception raised in the body of the loop.
AfterError(i) == [pc |-> "loop", idx |-> i + 1, status |-> -1]

\* Lines 93-145: the body of the loop for one image. The load of line 98 fails
\* on a directory; the render step fails before savefig has created the file.
ProcessImage ==
    /\ pc = "loop"
    /\ idx <= Len(images)
    /\ \E o \in Outcomes, pred \in 0..MaxCount :
          LET img == images[idx]
              stem == Stem(img)
          IN  /\ img \in dirs => o = "load"
              /\ o # "ok" => pred = 0
              /\ attempted' = Append(attempted, img)
              /\ outcome' = Append(outcome, o)
              /\ IF o = "ok"
                 THEN /\ overlays' = overlays \cup {OverlayName(stem)}
                      /\ csvFile' = [csvFile EXCEPT !.rows = Append(@, <<stem, pred>>)]
                      /\ rowOf' = Append(rowOf, img)
                      /\ idx' = idx + 1
                      /\ pc' = pc
                      /\ exitStatus' = exitStatus
                 ELSE /\ UNCHANGED <<overlays, csvFile, rowOf>>
                      /\ idx' = AfterError(idx).idx
                      /\ pc' = AfterError(idx).pc
                      /\ exitStatus' = AfterError(idx).status
    /\ UNCHANGED <<folderOk, entries, dirs, oracleOk, outInit, images, visualsDir,
                   oracleInits>>
    /\ UNCHANGED appVars

\* Lines 147-148 and the return of main(): the table is closed, status 0.
Finish ==
    /\ pc = "loop"
    /\ idx > Len(images)
    /\ pc' = "done"
    /\ exitStatus' = Returned
    /\ UNCHANGED <<folderOk, entries, dirs, oracleOk, outInit, images, idx, csvFile,
                   visualsDir, overlays, oracleInits, attempted, outcome, rowOf>>
    /\ UNCHANGED appVars

WorkerNext == CheckFolder \/ Discover \/ LoadModel \/ OpenCsv \/ ProcessImage \/ Finish

----------------------------------------------------------------------------
\* app.py: the file tree under a run's result directory. A path is the
\* sequence of names below the directory (<<>> is the directory itself);
\* a tree is its directories and its files, a file a pair <<path, content>>.

MaxRuns == 2        \* run ids a session hands out
MaxLines == 2       \* lines one worker writes

CsvName == <<"c", "o", "l", "o", "n", "y", "_", "c", "o", "u", "n", "t", "s", ".", "c", "s", "v">>
VisualsName == <<"c", "p", "_", "v", "i", "s", "u", "a", "l", "s">>
ImagesName == <<"I", "m", "a", "g", "e", "s">>
DefaultRunName == <<"C", "F", "U", "_", "R", "u", "n", "_", "R", "e", "s", "u", "l", "t", "s">>
ZipExt == <<".", "z", "i", "p">>

\* The texts the "Name your run" input of line 231 is drawn from.
RunNames == {DefaultRunName, VisualsName, CsvName, <<>>}
\* zipName before the first call of create_zip_of_run.
NoCall == <<"?">>
Lines == {"p", "q"}

Data(id) == [kind |-> "data", id |-> id, members |-> {}]
NoTree == [dirs |-> {}, files |-> {}]
EmptyDir == [dirs |-> {<<>>}, files |-> {}]

\* What a run of cfu_count.py leaves in an empty output directory, by exit
\* status: nothing (no folder, or no image), cp_visuals alone (the model
\* failed to load), or the table with one overlay per stem processed.
OverlaySets == { {}, {OverlayName(<<"a">>)}, {OverlayName(<<"a">>), OverlayName(<<"b">>)} }
TreeOfRun(names) ==
    [dirs |-> {<<>>, <<VisualsName>>},
     files |-> {<< <<CsvName>>, Data("csv") >>}
               \cup { << <<VisualsName, n>>, Data("png") >> : n \in names }]
RunResults ==
    {[code |-> 1, tree |-> EmptyDir],
     [code |-> 1, tree |-> [dirs |-> {<<>>, <<VisualsName>>}, files |-> {}]],
     [code |-> 0, tree |-> EmptyDir]}
    \cup { [code |-> 0, tree |-> TreeOfRun(names)] : names \in OverlaySets }

\* pathlib's "/" with a name that holds no separator: an empty name gives
\* the directory itself.
JoinPath(base, name) == IF name = <<>> THEN base ELSE Append(base, name)

IsPrefix(p, q) == Len(p) <= Len(q) /\ SubSeq(q, 1, Len(p)) = p
IsFile(f, p) == \E x \in f.files : x[1] = p
IsDir(f, p) == p \in f.dirs
Exists(f, p) == IsDir(f, p) \/ IsFile(f, p)
Content(f, p) == (CHOOSE x \in f.files : x[1] = p)[2]

\* shutil.rmtree(p) on a directory.
RmTree(f, p) ==
    [dirs |-> {d \in f.dirs : ~IsPrefix(p, d)},
     files |-> {x \in f.files : ~IsPrefix(p, x[1])}]

\* Path.mkdir() of a path that does not exist.
MkDir(f, p) == [f EXCEPT !.dirs = @ \cup {p}]

WriteFile(f, p, c) ==
    [f EXCEPT !.files = {x \in @ : x[1] # p} \cup {<<p, c>>}]

\* The files directly in directory p (glob("*") filtered by is_file()).
FilesIn(f, p) == {x \in f.files : Len(x[1]) = Len(p) + 1 /\ IsPrefix(p, x[1])}

\* Lines 99-102: the overlays that are not hidden are copied to Images.
CopyImages(f, src, dst) ==
    LET Name(y) == y[1][Len(y[1])]
        picked == {y \in FilesIn(f, src) : ~StartsWithDot(Name(y))}
        targets == {Append(dst, Name(y)) : y \in picked}
    IN  [f EXCEPT !.files = {x \in @ : x[1] \notin targets}
                            \cup { <<Append(dst, Name(y)), y[2]>> : y \in picked }]

\* Lines 106-112: make_archive writes <run_name>.zip in source_dir, holding the
\* files below the staging directory. With an empty run_name the base name is
\* source_dir itself and the archive lands beside it, outside the tree.
MakeArchive(f, name) ==
    IF name = <<>> THEN f
    ELSE WriteFile(f, <<name \o ZipExt>>,
                   [kind |-> "zip", id |-> "zip",
                    members |-> { <<x[1], x[2].id>> :
                                    x \in {y \in f.files : IsPrefix(<<name>>, y[1])} }])

\* Lines 83-86: the staging directory, emptied first when it exists.
Staging(f, staging) ==
    MkDir(IF Exists(f, staging) THEN RmTree(f, staging) ELSE f, staging)

\* Lines 77-121. The result is the tree afterwards and whether an exception
\* left the function: rmtree of line 85 raises on a regular file, outside the
\* try; shutil.copy of line 92 raises on a directory, inside it, and then the
\* finally clause still removes the staging directory.
create_zip_of_run(f, run_name) ==
    LET staging == JoinPath(<<>>, run_name)
    IN  IF IsFile(f, staging)
        THEN [tree |-> f, raised |-> TRUE]
        ELSE
          LET f2 == Staging(f, staging)
              csvSrc == <<CsvName>>
              f3 == IF IsFile(f2, csvSrc)
                    THEN WriteFile(f2, Append(staging, CsvName), Content(f2, csvSrc))
                    ELSE f2
              dst == Append(staging, ImagesName)
              f4 == MkDir(f3, dst)
              f5 == IF Exists(f4, <<VisualsName>>)
                    THEN CopyImages(f4, <<VisualsName>>, dst)
                    ELSE f4
              f6 == MakeArchive(f5, run_name)
              out == IF IsDir(f2, csvSrc) THEN f2 ELSE f6
          IN  [tree |-> IF Exists(out, staging) THEN RmTree(out, staging) ELSE out,
               raised |-> FALSE]

----------------------------------------------------------------------------
\* app.py: the session across script runs, and the worker it launches.

AppInit ==
    /\ appPc = "idle"
    /\ analysis_done = FALSE
    /\ result_dir = 0
    /\ runs = 0
    /\ runExit = [r \in 1..MaxRuns |-> "none"]
    /\ wState = "none"
    /\ wCode = -1
    /\ pipe = <<>>
    /\ emitted = <<>>
    /\ log_content = <<>>
    /\ shown = 0
    /\ fs = NoTree
    /\ fsBefore = NoTree
    /\ zipName = NoCall

\* Lines 202-247: the results section, with its call of create_zip_of_run on
\* the directory the session names. done and dir are the session's
\* analysis_done and result_dir when the section is reached.
ResultsSection(done, dir) ==
    IF done /\ dir # 0
    THEN /\ shown' = dir
         /\ \E run_name \in RunNames :
               /\ fsBefore' = fs
               /\ zipName' = run_name
               /\ fs' = create_zip_of_run(fs, run_name).tree
    ELSE /\ shown' = 0
         /\ UNCHANGED <<fs, fsBefore, zipName>>

\* A script run in which the run button was not clicked (lines 123-127, 132
\* false, 202-247). The locals of the previous script run are gone.
Rerun ==
    /\ appPc = "idle"
    /\ wState' = "none"
    /\ wCode' = -1
    /\ pipe' = <<>>
    /\ emitted' = <<>>
    /\ log_content' = <<>>
    /\ ResultsSection(analysis_done, result_dir)
    /\ UNCHANGED <<appPc, analysis_done, result_dir, runs, runExit>>
    /\ UNCHANGED workerVars

\* Lines 132-175: the run button was clicked. A fresh result directory is made
\* and stored in the session; then either cfu_count.py is missing and st.stop()
\* halts the script, or Popen raises (line 195), or the worker starts.
ClickRun ==
    /\ appPc = "idle"
    /\ runs < MaxRuns
    /\ runs' = runs + 1
    /\ result_dir' = runs + 1
    /\ fs' = EmptyDir
    /\ pipe' = <<>>
    /\ emitted' = <<>>
    /\ log_content' = <<>>
    /\ wCode' = -1
    /\ shown' = 0
    /\ \E scriptExists \in BOOLEAN, popenOk \in BOOLEAN :
          IF ~scriptExists
          THEN /\ popenOk
               /\ UNCHANGED <<appPc, analysis_done>>
               /\ wState' = "none"
          ELSE IF ~popenOk
          THEN /\ analysis_done' = FALSE
               /\ wState' = "none"
               /\ UNCHANGED appPc
          ELSE /\ appPc' = "loop"
               /\ wState' = "running"
               /\ UNCHANGED analysis_done
    /\ fsBefore' = NoTree
    /\ zipName' = NoCall
    /\ UNCHANGED runExit
    /\ UNCHANGED workerVars

\* The worker prints a line (cfu_count.py prints with flush=True).
WorkerWrite ==
    /\ wState = "running"
    /\ Len(emitted) < MaxLines
    /\ \E l \in Lines :
          /\ pipe' = Append(pipe, l)
          /\ emitted' = Append(emitted, l)
    /\ UNCHANGED <<appPc, analysis_done, result_dir, runs, runExit, wState, wCode,
                   log_content, shown, fs, fsBefore, zipName>>
    /\ UNCHANGED workerVars

\* The worker has written its files and closes its standard output on its
\* way out; its status is not yet there for poll().
WorkerClose ==
    /\ wState = "running"
    /\ \E r \in RunResults :
          /\ wCode' = r.code
          /\ fs' = r.tree
    /\ wState' = "closed"
    /\ UNCHANGED <<appPc, analysis_done, result_dir, runs, runExit, pipe, emitted,
                   log_content, shown, fsBefore, zipName>>
    /\ UNCHANGED workerVars

\* The worker process has ended: poll() returns its status from now on.
WorkerExit ==
    /\ wState = "closed"
    /\ wState' = "exited"
    /\ runExit' = [runExit EXCEPT ![runs] = IF wCode = 0 THEN "ok" ELSE "failed"]
    /\ UNCHANGED <<appPc, analysis_done, result_dir, runs, wCode, pipe, emitted,
                   log_content, shown, fs, fsBefore, zipName>>
    /\ UNCHANGED workerVars

\* Line 179 testing poll() alone.
BreakOnExit(line, polled) == polled

\* Line 179: the loop is left on an empty read once poll() has a status.
Break(line, polled) == line = "" /\ polled

\* Lines 176-184: one iteration of the log-reading loop. readline() blocks
\* while the pipe is empty and open, and returns "" at end of file.
ReadLine ==
    /\ appPc = "loop"
    /\ pipe # <<>> \/ wState \in {"closed", "exited"}
    /\ LET line == IF pipe # <<>> THEN Head(pipe) ELSE ""
           polled == wState = "exited"
       IN  /\ pipe' = IF pipe # <<>> THEN Tail(pipe) ELSE pipe
           /\ IF Break(line, polled)
              THEN appPc' = "decide" /\ UNCHANGED log_content
              ELSE /\ UNCHANGED appPc
                   /\ log_content' = IF line # "" THEN Append(log_content, line)
                                      ELSE log_content
    /\ UNCHANGED <<analysis_done, result_dir, runs, runExit, wState, wCode, emitted,
                   shown, fs, fsBefore, zipName>>
    /\ UNCHANGED workerVars

\* Lines 186-193 and the results section that follows in the same script run.
Decide ==
    /\ appPc = "decide"
    /\ appPc' = "idle"
    /\ IF wCode = 0
       THEN analysis_done' = TRUE /\ result_dir' = runs
       ELSE analysis_done' = FALSE /\ UNCHANGED result_dir
    /\ ResultsSection(analysis_done', result_dir')
    /\ UNCHANGED <<runs, runExit, wState, wCode, pipe, emitted, log_content>>
    /\ UNCHANGED workerVars

AppNext ==
    Rerun \/ ClickRun \/ WorkerWrite \/ WorkerClose \/ WorkerExit \/ ReadLine \/ Decide

----------------------------------------------------------------------------
\* Specifications. Each holds the other program at its initial state.

WorkerIdle ==
    /\ folderOk = FALSE /\ entries = {} /\ dirs = {} /\ oracleOk = FALSE
    /\ outInit = "empty" /\ pc = "done" /\ images = <<>> /\ idx = 1
    /\ csvFile = NoCsv /\ visualsDir = FALSE /\ overlays = {} /\ exitStatus = -1
    /\ oracleInits = 0 /\ attempted = <<>> /\ outcome = <<>> /\ rowOf = <<>>

Init == WorkerInit /\ AppInit
Next == WorkerNext
Spec == Init /\ [][Next]_vars

AppStart == WorkerIdle /\ AppInit
AppSpec == AppStart /\ [][AppNext]_vars

\* The driver's loop and the worker are running code: each takes its next
\* step when it can.
AppFairSpec ==
    /\ AppSpec
    /\ WF_vars(ReadLine)
    /\ WF_vars(Decide)
    /\ WF_vars(WorkerExit)

----------------------------------------------------------------------------
\* Properties of cfu_count.py (checked under Spec).

Done == pc = "done"
OracleUp == oracleInits = 1 /\ oracleOk
Failed(i) == outcome[i] # "ok"
Range(q) == {q[i] : i \in 1..Len(q)}

\* The attempted images that were processed without an error, in order.
RECURSIVE Succeeded(_, _)
Succeeded(att, out) ==
    IF att = <<>> THEN <<>>
    ELSE IF Head(out) = "ok" THEN <<Head(att)>> \o Succeeded(Tail(att), Tail(out))
    ELSE Succeeded(Tail(att), Tail(out))

\* C1: failure isolation. When a run with a non-empty worklist and a loaded
\* model ends, every image of the worklist was attempted whichever of them
\* raised, the table holds exactly one row for each image that did not fail
\* and none for an image that failed, and the exit status is 0.
C1_FailureIsolation ==
    (Done /\ images # <<>> /\ OracleUp) =>
        /\ attempted = images
        /\ Len(outcome) = Len(images)
        /\ \A i \in 1..Len(images) :
              Cardinality({k \in 1..Len(rowOf) : rowOf[k] = images[i]})
                  = IF i <= Len(outcome) /\ outcome[i] = "ok" THEN 1 ELSE 0
        /\ Len(csvFile.rows) = Len(rowOf)
        /\ exitStatus = 0

\* A finished run in which an image failed and a later one was processed.
C1_Witness ==
    /\ Done /\ exitStatus = 0
    /\ \E i, j \in 1..Len(outcome) : i < j /\ Failed(i) /\ outcome[j] = "ok"

\* C2: overlays. A run that started with an empty output directory ends with
\* exactly one overlay file per successfully processed image and none for a
\* failed image, so there are as many overlay files as rows in the table.
C2_OverlayPerImage ==
    (Done /\ outInit = "empty") =>
        /\ Cardinality(overlays) = Len(rowOf)
        /\ Cardinality(overlays) = Len(csvFile.rows)
        /\ \A i \in 1..Len(outcome) :
              OverlayName(Stem(attempted[i])) \in overlays <=> outcome[i] = "ok"

\* C3: discovery. The worklist is exactly the entries of the folder that are
\* regular files, have a recognized suffix (compared case-insensitively) and
\* do not begin with a dot, each once.
C3_WorklistIsRegularPlates ==
    (folderOk /\ pc \notin {"start", "discover"}) =>
        /\ Range(images) = {e \in entries : /\ e \notin dirs
                                            /\ Lower(Suffix(e)) \in IMAGE_EXTS
                                            /\ ~StartsWithDot(e)}
        /\ \A i, j \in 1..Len(images) : images[i] = images[j] => i = j

\* C4 as stated: the exit status is non-zero only when the input folder is
\* missing or not a directory, and 0 in every other run.
C4_NonZeroOnlyMissingFolder ==
    Done => (exitStatus # 0 <=> ~folderOk)

\* C4, amended: the exit status is 0 when main() returns (zero images and
\* all images failed included) and non-zero exactly when the input folder is
\* missing or the model fails to load.
C4_ExitStatus ==
    Done =>
        /\ exitStatus \in {0, 1}
        /\ exitStatus # 0 <=> (~folderOk \/ (images # <<>> /\ ~oracleOk))

\* A run in which every one of several images failed ends with status 0.
C4_Witness ==
    /\ Done /\ exitStatus = 0
    /\ Len(outcome) >= 2
    /\ \A i \in 1..Len(outcome) : Failed(i)

\* C5: ordering. The worklist is in strictly ascending path order whatever
\* order the folder was listed in, the images are processed in worklist
\* order, and the rows of the table are the successfully processed images
\* in that order; so the folder's content and the oracle's behaviour fix both.
C5_Ordering ==
    /\ \A i, j \in 1..Len(images) : i < j => PathLess(images[i], images[j])
    /\ pc \notin {"start", "discover"} => Range(images) = {e \in entries : IsPlate(e)}
    /\ Len(attempted) <= Len(images)
    /\ attempted = SubSeq(images, 1, Len(attempted))
    /\ rowOf = Succeeded(attempted, outcome)
    /\ (pc = "loop" \/ (Done /\ attempted # <<>>)) =>
          csvFile.rows = [k \in 1..Len(rowOf) |-> <<Stem(rowOf[k]), csvFile.rows[k][2]>>]

\* A finished run over three images of which the second failed.
C5_Witness ==
    /\ Done
    /\ Len(images) = 3
    /\ outcome = <<"ok", "infer", "ok">>
    /\ Len(csvFile.rows) = 2

\* C6: the table is written iff the worklist is not empty. A run with an
\* empty worklist ends with status 0 and has created neither
\* colony_counts.csv nor cp_visuals; a run with a non-empty worklist and a
\* loaded model leaves colony_counts.csv with the header first, header-only
\* when every image failed.
C6_TableIffWorklist ==
    (Done /\ folderOk) =>
        /\ images = <<>> =>
              /\ exitStatus = 0
              /\ csvFile = InitialCsv(outInit)
              /\ visualsDir = InitialVisuals(outInit)
              /\ overlays = InitialOverlays(outInit)
        /\ (images # <<>> /\ oracleOk) =>
              /\ csvFile.exists
              /\ csvFile.header = Header
              /\ visualsDir
              /\ (\A i \in 1..Len(outcome) : Failed(i)) => csvFile.rows = <<>>

\* A run over a stale output directory in which every image failed: the
\* table is there and holds the header alone.
C6_Witness ==
    /\ Done /\ outInit = "stale"
    /\ images # <<>>
    /\ csvFile.exists /\ csvFile.rows = <<>>

\* C7 as stated: in every run the model is constructed exactly once.
C7_InitExactlyOnce ==
    (Done /\ exitStatus = 0) => oracleInits = 1

\* C7, amended: the model is constructed at most once in a run: exactly once,
\* and before the first image, when the worklist is not empty, and not at all
\* when it is empty. No image is loaded, no row recorded and no overlay
\* written unless the construction succeeded; its failure ends the run.
C7_OracleBeforeImages ==
    /\ oracleInits <= 1
    /\ (pc \in {"open", "loop"} \/ attempted # <<>> \/ rowOf # <<>>
          \/ overlays # InitialOverlays(outInit)) => OracleUp
    /\ (Done /\ images # <<>>) => oracleInits = 1
    /\ (Done /\ images = <<>>) => oracleInits = 0
    /\ (oracleInits = 1 /\ ~oracleOk) =>
          Done /\ exitStatus = Raised /\ attempted = <<>>

\* A run whose model failed to load, over a folder that holds plates.
C7_Witness ==
    /\ Done /\ images # <<>>
    /\ oracleInits = 1 /\ ~oracleOk
    /\ attempted = <<>>

----------------------------------------------------------------------------
\* Properties of app.py (checked under AppSpec and AppFairSpec).

\* The outcome of the worker has been decided and its script run is over.
Decided == appPc = "idle" /\ wState = "exited"

C8_Safety ==
    /\ appPc = "decide" => (wState = "exited" /\ pipe = <<>> /\ log_content = emitted)
    /\ Decided => (log_content = emitted /\ (analysis_done <=> wCode = 0))

\* C8: orchestration. Whatever the interleaving of the worker's writes and
\* its exit, the log-reading loop ends once the worker has exited, every line
\* the worker wrote is in the log, in the order written, when the outcome is
\* decided, and analysis_done is true iff the exit status is 0.
C8_Orchestration ==
    /\ []C8_Safety
    /\ (appPc = "loop" /\ wState = "exited") ~> Decided

\* The worker exited with status 0 after two lines, both in the log.
C8_Witness ==
    /\ Decided
    /\ Len(emitted) >= 2
    /\ log_content = emitted
    /\ analysis_done /\ wCode = 0

\* C9: whenever the results section is shown, the directory it shows is the
\* output directory of a run whose worker exited with status 0.
C9_ShownDirSucceeded ==
    shown # 0 => runExit[shown] = "ok"

\* The run's artifacts: the table and what is under cp_visuals.
IsArtifact(path) ==
    path = <<CsvName>> \/ (Len(path) >= 2 /\ path[1] = VisualsName)

\* The paths create_zip_of_run may add or remove: the staging directory with
\* what is below it, and the archive.
IsZipScratch(path, run_name) ==
    \/ IsPrefix(JoinPath(<<>>, run_name), path)
    \/ path = <<run_name \o ZipExt>>

\* C10: create_zip_of_run leaves the run's artifacts as they were, whatever
\* the run name: the table and every file under cp_visuals are still there
\* with the same content, and nothing but the staging directory and the
\* archive has been added or removed.
C10_ZipKeepsArtifacts ==
    zipName # NoCall =>
        /\ \A x \in fsBefore.files : IsArtifact(x[1]) => x \in fs.files
        /\ \A x \in fsBefore.files \cup fs.files :
              ~IsZipScratch(x[1], zipName) => (x \in fsBefore.files /\ x \in fs.files)
        /\ \A d \in fsBefore.dirs \cup fs.dirs :
              ~IsZipScratch(d, zipName) => (d \in fsBefore.dirs /\ d \in fs.dirs)

====
